---- MODULE Spec2Model ----
(***************************************************************************)
(* Model of fetch_buyback.py: the batch-resumable collection run (main),   *)
(* the collection store (load_data / save_data), the universe file         *)
(* (load_sp500_list) and the per-symbol fetch result handling.             *)
(*                                                                         *)
(* The collection run has three specifications: Spec (invocations that may *)
(* overlap), SpecSeq (one invocation at a time, which may die) and         *)
(* SpecFair (one invocation at a time, each running to its end). Three     *)
(* more apply one function each to bounded inputs: SpecNearby              *)
(* (find_nearby), SpecFetch (fetch_buyback_data over a cash-flow table of  *)
(* one column) and SpecSummary (the totals of lines 209 and 232-235).      *)
(*                                                                         *)
(* Optional values (Python None) are modelled as sequences of length 0 or  *)
(* 1: <<>> is None / "no file", <<v>> is the value v.                      *)
(* Timestamps are integers >= 1 (seconds of a clock); the empty string ""  *)
(* of the fresh state is NoTime.                                           *)
(***************************************************************************)
EXTENDS Integers, Sequences, FiniteSets, TLC

\* ------------------------------------------------------------------ bounds
\* Largest universe the universe file may hold.
MaxN == 3
\* Largest clock reading.
MaxClock == 2
\* Number of invocations of main() that are started in one behaviour.
MaxRuns == 2
\* BATCH_SIZE (line 13). The source sets 50; the model keeps the constant and
\* scales its value down with the universe, so that a universe of MaxN
\* symbols still has more than one batch and a batch more than one symbol.
BATCH_SIZE == 2

\* Most keys a dictionary handed to find_nearby holds.
MaxKeys == 2

\* Most rows of the cash-flow table that carry one of the labels the
\* extraction looks for.
MaxRows == 2
\* Most quarters of a quarter list that is summarised on its own.
MaxQuarters == 4

\* The processes that may run main(): two, so that two runs may overlap.
Procs == {1, 2}
Syms == 1..MaxN

\* The empty timestamp string "" of the fresh state.
NoTime == 0

Min(a, b) == IF a < b THEN a ELSE b
Range(q) == {q[k] : k \in DOMAIN q}

\* --------------------------------------------------------- universe file
\* One descriptor of sp500_tickers.json.
Descriptor(s) == [symbol |-> s, name |-> 10 + s, sector |-> 20 + s]

\* The universe list of n symbols, in file order.
UniverseList(n) == [k \in 1..n |-> Descriptor(k)]

\* What the universe file may be: missing (<<>>) or a list of 0..MaxN symbols.
UniverseFiles == {<<>>} \cup {<<UniverseList(n)>> : n \in 0..MaxN}

\* load_sp500_list(): None when the file is missing, else the parsed list.
load_sp500_list(tf) == tf

\* "not sp500": None and the empty list are both falsy.
NotSp500(l) == l = <<>> \/ l[1] = <<>>

\* ------------------------------------------------------ upstream results
Quarter(d, b) ==
    [date |-> d, period |-> "Q1", year |-> 2023, buyback_amount |-> b,
     shares_outstanding |-> 1, shares_diluted |-> 1, free_cash_flow |-> 0,
     price |-> 0]

ResultA == [quarters |-> <<Quarter(2, -5)>>, market_cap |-> 7, current_price |-> 3]
ResultB == [quarters |-> <<Quarter(2, 0), Quarter(1, -3)>>, market_cap |-> 8,
            current_price |-> 4]
ResultEmpty == [quarters |-> <<>>, market_cap |-> 0, current_price |-> 0]

\* fetch_buyback_data(symbol): None (no cash flow, or an exception caught at
\* line 142) or a result dictionary.
FetchResults == {<<>>, <<ResultEmpty>>, <<ResultA>>, <<ResultB>>}

\* "result and result['quarters']"
FetchOk(r) == r # <<>> /\ r[1].quarters # <<>>

\* ------------------------------------------------------ collection store
\* The empty dictionary {}.
EmptyData == [k \in {} |-> 0]

\* The state load_data() returns when no file exists.
FreshState ==
    [last_updated |-> NoTime, batch_index |-> 0, total_batches |-> 0,
     sp500_list |-> <<>>, data |-> EmptyData, collection_started |-> NoTime,
     full_cycles_completed |-> 0]

\* load_data(): the parsed file, or the fresh state.
load_data(f) == IF f # <<>> THEN f[1] ELSE FreshState

\* save_data(data): the file content after the write, a full overwrite.
save_data_merge(d, f) ==
    IF f = <<>> THEN <<d>>
    ELSE <<[d EXCEPT !.batch_index = (f[1].batch_index + 1) % d.total_batches,
                     !.full_cycles_completed =
                        IF f[1].full_cycles_completed > d.full_cycles_completed
                        THEN f[1].full_cycles_completed + 1
                        ELSE d.full_cycles_completed]>>
save_data(d, f) == <<d>>

\* ------------------------------------------------------- batch scheduler
\* symbols = [s["symbol"] for s in sp500]
SymbolsOf(l) == [k \in 1..Len(l) |-> l[k].symbol]

\* total_batches = (len(symbols) + BATCH_SIZE - 1) // BATCH_SIZE
TotalBatches(n) == (n + BATCH_SIZE - 1) \div BATCH_SIZE

\* batch_index = db.get("batch_index", 0) % total_batches
EffectiveIndexRaw(c, t) == c
EffectiveIndex(c, t) == c % t

\* symbols[start:end] with start = batch_index * BATCH_SIZE and
\* end = min(start + BATCH_SIZE, len(symbols)); a Python slice clips at the
\* end of the list.
BatchSliceOverlap(symbols, b) ==
    SubSeq(symbols, Min(b * BATCH_SIZE, Len(symbols)) + 1,
           Min(Min(b * BATCH_SIZE + BATCH_SIZE + 1, Len(symbols)), Len(symbols)))
BatchSlice(symbols, b) ==
    SubSeq(symbols, Min(b * BATCH_SIZE, Len(symbols)) + 1,
           Min(Min(b * BATCH_SIZE + BATCH_SIZE, Len(symbols)), Len(symbols)))

\* db["batch_index"] = (batch_index + 1) % total_batches
NextCursorNoWrap(b, t) == b + 1
NextCursor(b, t) == (b + 1) % t

\* if batch_index + 1 == total_batches
CycleCompleteOffByOne(b, t) == b = t
CycleComplete(b, t) == b + 1 = t

\* if not db["collection_started"]: db["collection_started"] = now
StampStartedAlways(started, t) == t
StampStarted(started, t) == IF started = NoTime THEN t ELSE started

\* ------------------------------------------------------- symbol records
\* The record stored for a symbol on a successful fetch (lines 200-208).
SymbolRecord(info, result, t) ==
    [name |-> info.name, sector |-> info.sector, subSector |-> "",
     quarters |-> result.quarters, market_cap |-> result.market_cap,
     current_price |-> result.current_price, last_fetched |-> t]

\* info_lookup.get(symbol, {}): the descriptor of the symbol in this universe.
InfoLookup(l, s) == l[CHOOSE k \in 1..Len(l) : l[k].symbol = s]

\* A dictionary with d[s] = v set.
Put(d, s, v) == [k \in (DOMAIN d) \cup {s} |-> IF k = s THEN v ELSE d[k]]

\* db["data"][symbol] = record: the record replaces the stored one.
StoreRecordMerge(data, s, rec) ==
    Put(data, s, IF s \in DOMAIN data
                 THEN [rec EXCEPT !.quarters = rec.quarters \o data[s].quarters]
                 ELSE rec)
StoreRecord(data, s, rec) == Put(data, s, rec)

\* The else branch of line 214: the stored data is not touched.
OnFailureErase(data, s) == [k \in (DOMAIN data) \ {s} |-> data[k]]
OnFailure(data, s) == data

\* ------------------------------------------------------------ month keys
\* A month key is the string "YYYY-MM", a date the string "YYYY-MM-DD": a
\* sequence of characters, the digits being the numbers 0..9.
Dash == "-"

\* f"{n:02d}" for 0 <= n <= 99.
TwoDigits(n) == <<n \div 10, n % 10>>

\* f"{n}" for 1000 <= n <= 9999.
FourDigits(n) == <<n \div 1000, (n \div 100) % 10, (n \div 10) % 10, n % 10>>

\* col.strftime("%Y-%m") of a date in month m of year y.
MonthKey(y, m) == FourDigits(y) \o <<Dash>> \o <<m \div 10, m % 10>>

\* alt = f"{ny}-{nm:02d}"
FormatKey(ny, nm) == FourDigits(ny) \o <<Dash>> \o TwoDigits(nm)

\* int(date_key[:4]) and int(date_key[5:7])
KeyYear(date_key) ==
    1000 * date_key[1] + 100 * date_key[2] + 10 * date_key[3] + date_key[4]
KeyMonth(date_key) == 10 * date_key[6] + date_key[7]

\* for offset in [1, -1, 2, -2, 3, -3]
OffsetsBackFirst == <<-1, 1, -2, 2, -3, 3>>
Offsets == <<1, -1, 2, -2, 3, -3>>

\* (nm - 1) // 12: Python's floor division, which is \div.
YearCarryTruncated(nm) == IF nm - 1 < 0 THEN 0 - ((1 - nm) \div 12) ELSE (nm - 1) \div 12
YearCarry(nm) == (nm - 1) \div 12

\* Lines 78-81: the key probed at one offset.
Alt(date_key, offset) ==
    LET y == KeyYear(date_key)
        m == KeyMonth(date_key)
        nm == m + offset
        ny == y + YearCarry(nm)
    IN  FormatKey(ny, ((nm - 1) % 12) + 1)

\* Lines 77-85: the loop over the offsets from the i-th on; <<keys probed,
\* value returned>>.
RECURSIVE ProbeFrom(_, _, _)
ProbeFrom(data_dict, date_key, i) ==
    IF i > Len(Offsets) THEN <<<<>>, 0>>
    ELSE LET alt == Alt(date_key, Offsets[i])
         IN  IF alt \in DOMAIN data_dict
             THEN <<<<alt>>, data_dict[alt]>>
             ELSE LET rest == ProbeFrom(data_dict, date_key, i + 1)
                  IN  <<<<alt>> \o rest[1], rest[2]>>

\* Lines 73-85: <<keys probed, value returned>>.
FindNearbyProbing(data_dict, date_key) ==
    IF date_key \in DOMAIN data_dict
    THEN <<<<>>, data_dict[date_key]>>
    ELSE ProbeFrom(data_dict, date_key, 1)

\* find_nearby(data_dict, date_key)
find_nearby(data_dict, date_key) == FindNearbyProbing(data_dict, date_key)[2]

\* ------------------------------------------------------ statement tables
\* A cell of a statement table: None, NaN or a number.
PyNone == [kind |-> "None", v |-> 0]
NaN == [kind |-> "nan", v |-> 0]
Float(n) == [kind |-> "float", v |-> n]

\* val is not None and str(val) != 'nan'
IsValue(val) == val.kind # "None" /\ val.kind # "nan"

\* A statement table (a DataFrame) is <<>> for None, or <<t>> with t.index
\* the row labels and t.columns the columns in upstream order, a column
\* being its date and its cell for each row label.
\* "t is None or t.empty": a DataFrame is empty when an axis has length 0.
NoneOrEmpty(t) == t = <<>> \/ t[1].index = {} \/ t[1].columns = <<>>

\* getattr(info, name, 0) or 0, the attribute being <<>> (None) or <<n>>.
OrZero(attr) == IF attr = <<>> \/ attr[1] = 0 THEN 0 ELSE attr[1]

\* Lines 52-53, 96-97, 108 and 119: the row labels tried, in order.
BsShareKeys ==
    <<"Ordinary Shares Number", "Share Issued",
      "Common Stock Shares Outstanding", "OrdinarySharesNumber">>
BuybackKeysReversed ==
    <<"RepurchaseOfCapitalStock", "Common Stock Repurchased",
      "Repurchase Of Capital Stock">>
BuybackKeys ==
    <<"Repurchase Of Capital Stock", "Common Stock Repurchased",
      "RepurchaseOfCapitalStock">>
CfShareKeys == <<"Diluted Average Shares", "Basic Average Shares">>
FcfKeys == <<"Free Cash Flow", "FreeCashFlow">>

\* Lines 52-59: the balance-sheet share count of one column, from the i-th
\* label on: <<>> when no label has a positive number.
RECURSIVE BsSharesFrom(_, _, _)
BsSharesFrom(index, cells, i) ==
    IF i > Len(BsShareKeys) THEN <<>>
    ELSE LET key == BsShareKeys[i]
         IN  IF key \in index /\ IsValue(cells[key]) /\ cells[key].v > 0
             THEN <<cells[key].v>>
             ELSE BsSharesFrom(index, cells, i + 1)

\* Lines 47-61: shares_data after the first n columns of the balance sheet.
RECURSIVE SharesDataUpTo(_, _)
SharesDataUpTo(bs, n) ==
    IF n = 0 THEN EmptyData
    ELSE LET col == bs[1].columns[n]
             dk == SubSeq(col.date, 1, 7)
             val == BsSharesFrom(bs[1].index, col.cells, 1)
             before == SharesDataUpTo(bs, n - 1)
         IN  IF val = <<>> THEN before ELSE Put(before, dk, val[1])
SharesData(bs) ==
    IF NoneOrEmpty(bs) THEN EmptyData ELSE SharesDataUpTo(bs, Len(bs[1].columns))

\* round(float(row['Close']), 2), amounts being in thousandths.
Round2(x) == ((x + 5) \div 10) * 10

\* Lines 64-71: prices after the first n rows of the price history, a row
\* being its date and its close.
RECURSIVE PricesUpTo(_, _)
PricesUpTo(history, n) ==
    IF n = 0 THEN EmptyData
    ELSE Put(PricesUpTo(history, n - 1), SubSeq(history[n].date, 1, 7),
             Round2(history[n].Close))
Prices(history) == PricesUpTo(history, Len(history))

\* Lines 95-103: the buyback amount of one column, from the i-th label on.
RECURSIVE BuybackFrom(_, _, _)
BuybackFrom(index, cells, i) ==
    IF i > Len(BuybackKeys) THEN 0
    ELSE LET key == BuybackKeys[i]
         IN  IF key \in index /\ IsValue(cells[key])
             THEN cells[key].v
             ELSE BuybackFrom(index, cells, i + 1)

\* Lines 108-113: the cash-flow share count of one column, from the i-th
\* label on; 0 when no label has a positive number.
RECURSIVE CfSharesFrom(_, _, _)
CfSharesFrom(index, cells, i) ==
    IF i > Len(CfShareKeys) THEN 0
    ELSE LET key == CfShareKeys[i]
         IN  IF key \in index /\ IsValue(cells[key]) /\ cells[key].v > 0
             THEN cells[key].v
             ELSE CfSharesFrom(index, cells, i + 1)

\* Lines 105-115: balance sheet > cash flow > fast_info.
SharesCashFlowFirst(index, cells, shares_data, q_key, current_shares) ==
    LET from_cf == CfSharesFrom(index, cells, 1)
        from_bs == IF from_cf = 0 THEN find_nearby(shares_data, q_key) ELSE from_cf
    IN  IF from_bs = 0 THEN current_shares ELSE from_bs
Shares(index, cells, shares_data, q_key, current_shares) ==
    LET from_bs == find_nearby(shares_data, q_key)
        from_cf == IF from_bs = 0 THEN CfSharesFrom(index, cells, 1) ELSE from_bs
    IN  IF from_cf = 0 THEN current_shares ELSE from_cf

\* Lines 117-124: the free cash flow of one column, from the i-th label on.
RECURSIVE FcfFrom(_, _, _)
FcfFrom(index, cells, i) ==
    IF i > Len(FcfKeys) THEN 0
    ELSE LET key == FcfKeys[i]
         IN  IF key \in index /\ IsValue(cells[key])
             THEN cells[key].v
             ELSE FcfFrom(index, cells, i + 1)

\* Lines 88-138: the quarter appended for one column.
ColumnQuarter(index, col, shares_data, prices, current_shares) ==
    LET date_str == col.date
        month == KeyMonth(date_str)
        q_num == (month - 1) \div 3 + 1
        q_key == SubSeq(date_str, 1, 7)
        shares == Shares(index, col.cells, shares_data, q_key, current_shares)
    IN  [date |-> date_str, period |-> <<"Q", q_num>>,
         year |-> SubSeq(date_str, 1, 4),
         buyback_amount |-> BuybackFrom(index, col.cells, 1),
         shares_outstanding |-> shares, shares_diluted |-> shares,
         free_cash_flow |-> FcfFrom(index, col.cells, 1),
         price |-> find_nearby(prices, q_key)]

\* Lines 87-138: the quarters of the cash-flow table, in upstream order.
Quarters(cf, shares_data, prices, current_shares) ==
    [n \in 1..Len(cf[1].columns) |->
        ColumnQuarter(cf[1].index, cf[1].columns[n], shares_data, prices,
                      current_shares)]

\* ---------------------------------------------------------------- summary
Abs(x) == IF x < 0 THEN 0 - x ELSE x

\* abs(min(q["buyback_amount"], 0))
NegativePartAbs(b) == Abs(b)
NegativePart(b) == Abs(Min(b, 0))

\* Line 209: buyback_total = sum(abs(min(q["buyback_amount"], 0)) for q in ...)
RECURSIVE buyback_total(_)
buyback_total(quarters) ==
    IF quarters = <<>> THEN 0
    ELSE NegativePart(Head(quarters).buyback_amount) + buyback_total(Tail(quarters))

\* Line 234: any(q["buyback_amount"] < 0 for q in v.get("quarters", []))
HasBuybacks(quarters) == \E i \in DOMAIN quarters : quarters[i].buyback_amount < 0

\* ------------------------------------------------------------------ state
VARIABLES
    tickers,        \* sp500_tickers.json: <<>> (missing) or <<list>>
    file,           \* buyback_data.json: <<>> (missing) or <<collection state>>
    clock,          \* the wall clock, in seconds
    pc,             \* per process: where its invocation of main() stands
    db,             \* per process: the in-memory collection state
    now,            \* per process: the timestamp taken at line 171
    sp500,          \* per process: the universe list it loaded
    batch_index,    \* per process: the effective index of line 182
    batch_symbols,  \* per process: the slice of line 185
    idx,            \* per process: the symbols of the batch fetched so far
    success_count,  \* per process
    fail_count,     \* per process
    loaded,         \* history: the collection state the invocation loaded
    got,            \* history: the fetch result of each symbol fetched so far
    started,        \* history: invocations started so far
    epoch,          \* history: per process, the saves that preceded its load
    hist,           \* history: one entry per completed invocation, in save order
    lastGot,        \* history: the fetch results of the last completed invocation
    crashed,        \* history: <<>>, or <<the last invocation that died>> if no
                    \* invocation has completed since
    args,           \* find_nearby: <<>>, or <<the arguments of the call>>
    probed,         \* find_nearby: the keys the call probed at the offsets
    nearby,         \* find_nearby: <<>>, or <<the value returned>>
    fpc,            \* fetch_buyback_data: where the call stands
    cf,             \* fetch_buyback_data: the cash-flow table read at line 36
    info,           \* fetch_buyback_data: market_cap, current_price and
                    \* current_shares of lines 42-44
    shares_data,    \* fetch_buyback_data: the dictionary of lines 47-61
    prices,         \* fetch_buyback_data: the dictionary of lines 64-71
    returned,       \* fetch_buyback_data: <<>> (None), or <<the result>>
    rec_quarters,   \* summary: <<>>, or <<a quarter list>>
    summary         \* summary: <<>>, or <<the numbers lines 209 and 233 derive>>

vars == <<tickers, file, clock, pc, db, now, sp500, batch_index, batch_symbols,
          idx, success_count, fail_count, loaded, got, started, epoch,
          hist, lastGot, crashed,
          args, probed, nearby, fpc, cf, info, shares_data, prices, returned,
          rec_quarters, summary>>

\* The state of the collection run, and the state of the calls that are
\* modelled on their own.
run == <<tickers, file, clock, pc, db, now, sp500, batch_index, batch_symbols,
         idx, success_count, fail_count, loaded, got, started, epoch,
         hist, lastGot, crashed>>
fetch == <<fpc, cf, info, shares_data, prices, returned>>
calls == <<args, probed, nearby, fetch, rec_quarters, summary>>

history == <<hist, lastGot, crashed>>

locals == <<db, now, sp500, batch_index, batch_symbols, idx, success_count,
            fail_count, loaded, got, epoch>>

Active(p) == pc[p] \in {"loaded", "fetching"}
AtRest(p) == pc[p] \in {"idle", "done", "exit1", "crashed"}

\* What fetch_buyback_data holds of fast_info before it has read it.
NoInfo == [market_cap |-> 0, current_price |-> 0, current_shares |-> 0]

\* No call of fetch_buyback_data is modelled on its own; or one is, and has
\* not read anything yet.
NoFetchAt(at) ==
    /\ fpc = at
    /\ cf = <<>> /\ info = NoInfo
    /\ shares_data = EmptyData /\ prices = EmptyData
    /\ returned = <<>>
NoFetch == NoFetchAt("none")

\* No call is modelled on its own.
NoCalls ==
    /\ args = <<>> /\ probed = <<>> /\ nearby = <<>>
    /\ NoFetch
    /\ rec_quarters = <<>> /\ summary = <<>>

\* No run of main() has started; the universe file is u.
NoRun(u) ==
    /\ tickers = u
    /\ file = <<>>
    /\ clock = 1
    /\ pc = [p \in Procs |-> "idle"]
    /\ db = [p \in Procs |-> FreshState]
    /\ now = [p \in Procs |-> NoTime]
    /\ sp500 = [p \in Procs |-> <<>>]
    /\ batch_index = [p \in Procs |-> 0]
    /\ batch_symbols = [p \in Procs |-> <<>>]
    /\ idx = [p \in Procs |-> 0]
    /\ success_count = [p \in Procs |-> 0]
    /\ fail_count = [p \in Procs |-> 0]
    /\ loaded = [p \in Procs |-> FreshState]
    /\ got = [p \in Procs |-> EmptyData]
    /\ started = 0
    /\ epoch = [p \in Procs |-> 0]
    /\ hist = <<>>
    /\ lastGot = EmptyData
    /\ crashed = <<>>

Init ==
    /\ NoCalls
    /\ tickers \in UniverseFiles
    /\ file = <<>>
    /\ clock = 1
    /\ pc = [p \in Procs |-> "idle"]
    /\ db = [p \in Procs |-> FreshState]
    /\ now = [p \in Procs |-> NoTime]
    /\ sp500 = [p \in Procs |-> <<>>]
    /\ batch_index = [p \in Procs |-> 0]
    /\ batch_symbols = [p \in Procs |-> <<>>]
    /\ idx = [p \in Procs |-> 0]
    /\ success_count = [p \in Procs |-> 0]
    /\ fail_count = [p \in Procs |-> 0]
    /\ loaded = [p \in Procs |-> FreshState]
    /\ got = [p \in Procs |-> EmptyData]
    /\ started = 0
    /\ epoch = [p \in Procs |-> 0]
    /\ hist = <<>>
    /\ lastGot = EmptyData
    /\ crashed = <<>>

\* The history entry of an invocation that completes.
Completed(p) ==
    [sp500 |-> sp500[p], batch_index |-> batch_index[p],
     batch |-> batch_symbols[p], now |-> now[p],
     epoch |-> epoch[p], cursor |-> loaded[p].batch_index,
     cycles |-> loaded[p].full_cycles_completed]

\* The history entry of an invocation that dies.
Died(p) ==
    [selected |-> pc[p] = "fetching", sp500 |-> sp500[p],
     batch_index |-> batch_index[p], batch |-> batch_symbols[p],
     fetched |-> idx[p], loaded |-> loaded[p]]

\* The universe file is replaced between runs, while a run is still to
\* come.
ChangeUniverse ==
    /\ \A p \in Procs : ~Active(p)
    /\ started < MaxRuns
    /\ \E u \in UniverseFiles : u # tickers /\ tickers' = u
    /\ UNCHANGED <<file, clock, pc, locals, started, history>>
    /\ UNCHANGED calls

\* Lines 170-171: a new invocation of main() loads the store and reads the
\* clock, which has not gone backwards since the last reading. The invocation
\* takes the first process that is not running. At most n invocations are
\* started.
LoadWithin(p, n) ==
    /\ AtRest(p)
    /\ \A q \in Procs : q < p => Active(q)
    /\ started < n
    /\ \E t \in clock..Min(clock + 1, MaxClock) :
          /\ clock' = t
          /\ now' = [now EXCEPT ![p] = t]
    /\ db' = [db EXCEPT ![p] = load_data(file)]
    /\ loaded' = [loaded EXCEPT ![p] = load_data(file)]
    /\ pc' = [pc EXCEPT ![p] = "loaded"]
    /\ sp500' = [sp500 EXCEPT ![p] = <<>>]
    /\ batch_index' = [batch_index EXCEPT ![p] = 0]
    /\ batch_symbols' = [batch_symbols EXCEPT ![p] = <<>>]
    /\ idx' = [idx EXCEPT ![p] = 0]
    /\ success_count' = [success_count EXCEPT ![p] = 0]
    /\ fail_count' = [fail_count EXCEPT ![p] = 0]
    /\ got' = [got EXCEPT ![p] = EmptyData]
    /\ started' = started + 1
    /\ epoch' = [epoch EXCEPT ![p] = Len(hist)]
    /\ UNCHANGED <<tickers, file, history>>
    /\ UNCHANGED calls
Load(p) == LoadWithin(p, MaxRuns)

\* Lines 173-176: the universe is missing or empty, sys.exit(1).
FatalExitSaving(p) ==
    /\ pc' = [pc EXCEPT ![p] = "exit1"]
    /\ file' = save_data(db[p], file)
    /\ UNCHANGED <<tickers, clock, locals, started, history>>
    /\ UNCHANGED calls
FatalExit(p) ==
    /\ pc' = [pc EXCEPT ![p] = "exit1"]
    /\ UNCHANGED <<tickers, file, clock, locals, started, history>>
    /\ UNCHANGED calls

\* Lines 178-192: the batch of this run.
SelectBatch(p) ==
    LET l == load_sp500_list(tickers)[1]
        symbols == SymbolsOf(l)
        total_batches == TotalBatches(Len(symbols))
        e == EffectiveIndex(db[p].batch_index, total_batches)
    IN  /\ db' = [db EXCEPT ![p].sp500_list = l]
        /\ sp500' = [sp500 EXCEPT ![p] = l]
        /\ batch_index' = [batch_index EXCEPT ![p] = e]
        /\ batch_symbols' = [batch_symbols EXCEPT ![p] = BatchSlice(symbols, e)]
        /\ pc' = [pc EXCEPT ![p] = "fetching"]
        /\ UNCHANGED <<tickers, file, clock, now, idx, success_count, fail_count,
                       loaded, got, started, epoch, history>>
        /\ UNCHANGED calls

\* Lines 173-192.
LoadUniverse(p) ==
    /\ pc[p] = "loaded"
    /\ IF NotSp500(load_sp500_list(tickers)) THEN FatalExit(p) ELSE SelectBatch(p)

\* The memory of a process that ended is gone.
Forget(p) ==
    /\ db' = [db EXCEPT ![p] = FreshState]
    /\ now' = [now EXCEPT ![p] = NoTime]
    /\ sp500' = [sp500 EXCEPT ![p] = <<>>]
    /\ batch_index' = [batch_index EXCEPT ![p] = 0]
    /\ batch_symbols' = [batch_symbols EXCEPT ![p] = <<>>]
    /\ idx' = [idx EXCEPT ![p] = 0]
    /\ success_count' = [success_count EXCEPT ![p] = 0]
    /\ fail_count' = [fail_count EXCEPT ![p] = 0]
    /\ loaded' = [loaded EXCEPT ![p] = FreshState]
    /\ got' = [got EXCEPT ![p] = EmptyData]
    /\ epoch' = [epoch EXCEPT ![p] = 0]

\* Lines 194-218: one iteration of the loop, the next symbol of the batch.
FetchSymbolAborting(p) ==
    /\ pc[p] = "fetching"
    /\ idx[p] < Len(batch_symbols[p])
    /\ LET symbol == batch_symbols[p][idx[p] + 1] IN
       \E result \in FetchResults :
          IF result = <<>>
          THEN /\ pc' = [pc EXCEPT ![p] = "crashed"]
               /\ crashed' = <<Died(p)>>
               /\ Forget(p)
               /\ UNCHANGED <<hist, lastGot>>
          ELSE /\ got' = [got EXCEPT ![p] = Put(got[p], symbol, result)]
               /\ IF FetchOk(result)
                  THEN /\ db' = [db EXCEPT ![p].data =
                                   StoreRecord(db[p].data, symbol,
                                               SymbolRecord(InfoLookup(sp500[p], symbol),
                                                            result[1], now[p]))]
                       /\ success_count' = [success_count EXCEPT ![p] = @ + 1]
                       /\ UNCHANGED fail_count
                  ELSE /\ db' = [db EXCEPT ![p].data = OnFailure(db[p].data, symbol)]
                       /\ fail_count' = [fail_count EXCEPT ![p] = @ + 1]
                       /\ UNCHANGED success_count
               /\ idx' = [idx EXCEPT ![p] = @ + 1]
               /\ UNCHANGED <<pc, now, sp500, batch_index, batch_symbols, loaded,
                              epoch, history>>
    /\ UNCHANGED <<tickers, file, clock, started>>
    /\ UNCHANGED calls
FetchSymbolUncounted(p) ==
    /\ pc[p] = "fetching"
    /\ idx[p] < Len(batch_symbols[p])
    /\ LET symbol == batch_symbols[p][idx[p] + 1] IN
       \E result \in FetchResults :
          /\ got' = [got EXCEPT ![p] = Put(got[p], symbol, result)]
          /\ IF FetchOk(result)
             THEN /\ db' = [db EXCEPT ![p].data =
                              StoreRecord(db[p].data, symbol,
                                          SymbolRecord(InfoLookup(sp500[p], symbol),
                                                       result[1], now[p]))]
                  /\ success_count' = [success_count EXCEPT ![p] = @ + 1]
                  /\ UNCHANGED fail_count
             ELSE /\ db' = [db EXCEPT ![p].data = OnFailure(db[p].data, symbol)]
                  /\ UNCHANGED <<success_count, fail_count>>
    /\ idx' = [idx EXCEPT ![p] = @ + 1]
    /\ UNCHANGED <<tickers, file, clock, pc, now, sp500, batch_index,
                   batch_symbols, loaded, started, epoch, history>>
    /\ UNCHANGED calls
FetchSymbol(p) ==
    /\ pc[p] = "fetching"
    /\ idx[p] < Len(batch_symbols[p])
    /\ LET symbol == batch_symbols[p][idx[p] + 1] IN
       \E result \in FetchResults :
          /\ got' = [got EXCEPT ![p] = Put(got[p], symbol, result)]
          /\ IF FetchOk(result)
             THEN /\ db' = [db EXCEPT ![p].data =
                              StoreRecord(db[p].data, symbol,
                                          SymbolRecord(InfoLookup(sp500[p], symbol),
                                                       result[1], now[p]))]
                  /\ success_count' = [success_count EXCEPT ![p] = @ + 1]
                  /\ UNCHANGED fail_count
             ELSE /\ db' = [db EXCEPT ![p].data = OnFailure(db[p].data, symbol)]
                  /\ fail_count' = [fail_count EXCEPT ![p] = @ + 1]
                  /\ UNCHANGED success_count
    /\ idx' = [idx EXCEPT ![p] = @ + 1]
    /\ UNCHANGED <<tickers, file, clock, pc, now, sp500, batch_index,
                   batch_symbols, loaded, started, epoch, history>>
    /\ UNCHANGED calls

\* Lines 220-229: the collection state as it is handed to save_data.
FinalState(d, t, b, total_batches) ==
    [d EXCEPT !.last_updated = t,
              !.batch_index = NextCursor(b, total_batches),
              !.total_batches = total_batches,
              !.collection_started = StampStarted(d.collection_started, t),
              !.full_cycles_completed =
                  IF CycleComplete(b, total_batches) THEN @ + 1 ELSE @]

\* Lines 220-243: after the loop, update the cursor and save; the process
\* ends.
Finish(p) ==
    /\ pc[p] = "fetching"
    /\ idx[p] = Len(batch_symbols[p])
    /\ LET total_batches == TotalBatches(Len(sp500[p]))
           final == FinalState(db[p], now[p], batch_index[p], total_batches)
       IN  file' = save_data(final, file)
    /\ hist' = Append(hist, Completed(p))
    /\ lastGot' = got[p]
    /\ crashed' = <<>>
    /\ pc' = [pc EXCEPT ![p] = "done"]
    /\ Forget(p)
    /\ UNCHANGED <<tickers, clock, started>>
    /\ UNCHANGED calls

\* The process dies between load and save; nothing of it reaches the file.
CrashSaving(p) ==
    /\ Active(p)
    /\ pc' = [pc EXCEPT ![p] = "crashed"]
    /\ file' = save_data(db[p], file)
    /\ crashed' = <<Died(p)>>
    /\ Forget(p)
    /\ UNCHANGED <<tickers, clock, started, hist, lastGot>>
    /\ UNCHANGED calls
Crash(p) ==
    /\ Active(p)
    /\ pc' = [pc EXCEPT ![p] = "crashed"]
    /\ crashed' = <<Died(p)>>
    /\ Forget(p)
    /\ UNCHANGED <<tickers, file, clock, started, hist, lastGot>>
    /\ UNCHANGED calls

\* An invocation that starts while no other one is running.
LoadAlone(p) ==
    /\ \A q \in Procs : ~Active(q)
    /\ Load(p)

\* Invocations that may overlap, each running to its end.
Next ==
    \/ ChangeUniverse
    \/ \E p \in Procs : Load(p)
    \/ \E p \in Procs : LoadUniverse(p)
    \/ \E p \in Procs : FetchSymbol(p)
    \/ \E p \in Procs : Finish(p)

Spec == Init /\ [][Next]_vars

\* One invocation at a time, as the external scheduler enforces; an
\* invocation may die at any point between its load and its save.
NextSeq ==
    \/ ChangeUniverse
    \/ \E p \in Procs : LoadAlone(p)
    \/ \E p \in Procs : LoadUniverse(p)
    \/ \E p \in Procs : FetchSymbol(p)
    \/ \E p \in Procs : Finish(p)
    \/ \E p \in Procs : Crash(p)

SpecSeq == Init /\ [][NextSeq]_vars

\* One invocation at a time over a universe that does not change, each
\* invocation running to its end, and one invocation more than MaxRuns, so
\* that a universe of two batches is gone through one and a half times. A
\* process that is in its loop takes its next step: the loop body returns,
\* fetch_buyback_data returning a result or None.
LoadNext(p) ==
    /\ \A q \in Procs : ~Active(q)
    /\ LoadWithin(p, MaxRuns + 1)

NextFair ==
    \/ \E p \in Procs : LoadNext(p)
    \/ \E p \in Procs : LoadUniverse(p)
    \/ \E p \in Procs : FetchSymbol(p)
    \/ \E p \in Procs : Finish(p)

SpecFair ==
    /\ Init
    /\ [][NextFair]_vars
    /\ \A p \in Procs : WF_vars(FetchSymbol(p)) /\ WF_vars(Finish(p))

\* ------------------------------------------------- find_nearby on its own
\* The months of the dictionaries: three years, so that every probe from a
\* month of the middle year stays inside.
Years == 2022..2024
MiddleYear == {y \in Years : y - 1 \in Years /\ y + 1 \in Years}
AllKeys == {MonthKey(y, m) : y \in Years, m \in 1..12}
TargetKeys == {MonthKey(y, m) : y \in MiddleYear, m \in 1..12}

\* The calendar months from key a to key b.
MonthsBetween(a, b) == (KeyYear(b) - KeyYear(a)) * 12 + KeyMonth(b) - KeyMonth(a)

\* The keys at most four months from k, one month farther than the farthest
\* probe; and the values of the dictionaries.
NearKeys(k) == {a \in AllKeys : MonthsBetween(k, a) \in (0 - 4)..4}
DictValues == {1, 2}

\* The dictionaries of at most MaxKeys of the given keys.
Dicts(keys) ==
    UNION {[S -> DictValues] : S \in {T \in SUBSET keys : Cardinality(T) <= MaxKeys}}

InitNearby ==
    /\ NoRun(<<>>)
    /\ \E k \in TargetKeys : \E d \in Dicts(NearKeys(k)) :
          args = <<[data_dict |-> d, date_key |-> k]>>
    /\ probed = <<>> /\ nearby = <<>>
    /\ NoFetch
    /\ rec_quarters = <<>> /\ summary = <<>>

\* Lines 73-85: one call of find_nearby.
CallFindNearby ==
    /\ args # <<>> /\ nearby = <<>>
    /\ LET r == FindNearbyProbing(args[1].data_dict, args[1].date_key)
       IN  probed' = r[1] /\ nearby' = <<r[2]>>
    /\ UNCHANGED <<run, args, fetch, rec_quarters, summary>>

NextNearby == CallFindNearby

SpecNearby == InitNearby /\ [][NextNearby]_vars

\* ------------------------------------------ fetch_buyback_data on its own
\* str of a date: "YYYY-MM-DD".
DateStr(y, m, d) == MonthKey(y, m) \o <<Dash>> \o <<d \div 10, d % 10>>

\* The cells of the cash-flow table, the labels the extraction looks for,
\* and a row that is no such label.
Cells == {PyNone, NaN, Float(0 - 1200), Float(0), Float(5), Float(6)}
CfLabels == Range(BuybackKeys) \cup Range(CfShareKeys) \cup Range(FcfKeys)
OtherRow == "Net Income"

\* One column of a cash-flow table whose rows are OtherRow and the labels
\* of rows.
CfColumns(rows) ==
    {[date |-> DateStr(2023, 12, 31),
      cells |-> [k \in rows \cup {OtherRow} |->
                   IF k = OtherRow THEN Float(1) ELSE c[k]]] : c \in [rows -> Cells]}

\* What ticker.quarterly_cashflow may be: None, a table without columns, or
\* a table of one column with at most MaxRows of the labels.
CfTables ==
    {<<>>, <<[index |-> {OtherRow}, columns |-> <<>>]>>} \cup
    UNION {{<<[index |-> rows \cup {OtherRow}, columns |-> <<col>>]>> :
               col \in CfColumns(rows)} :
           rows \in {r \in SUBSET CfLabels : Cardinality(r) <= MaxRows}}

\* What ticker.fast_info may hold.
FastInfos ==
    {[market_cap |-> <<7>>, last_price |-> <<3>>, shares |-> n] :
        n \in {<<>>, <<0>>, <<9>>}}

\* What ticker.quarterly_balance_sheet may be: None (or an exception, which
\* line 60 swallows), or a table of one column, of the month of the
\* cash-flow column, of the month after or of a month four months before,
\* with one or two of the share labels.
BsTables ==
    {<<>>} \cup
    UNION {{<<[index |-> rows,
              columns |-> <<[date |-> d, cells |-> c]>>]>> :
               d \in {DateStr(2023, 12, 31), DateStr(2024, 1, 31), DateStr(2023, 8, 31)},
               c \in [rows -> {NaN, Float(0), Float(7)}]} :
           rows \in {r \in SUBSET Range(BsShareKeys) : Cardinality(r) \in 1..2}}

\* What ticker.history(...) may be: no rows (or an exception, which line 70
\* swallows), or the row of the month before.
Histories == {<<>>, <<[date |-> DateStr(2023, 11, 1), Close |-> 2004]>>}

InitFetch ==
    /\ NoRun(<<>>)
    /\ NoFetchAt("start")
    /\ args = <<>> /\ probed = <<>> /\ nearby = <<>>
    /\ rec_quarters = <<>> /\ summary = <<>>

others == <<run, args, probed, nearby, rec_quarters, summary>>

\* Lines 36-38.
ReadCashflow ==
    /\ fpc = "start"
    /\ \E t \in CfTables :
          /\ cf' = t
          /\ fpc' = IF NoneOrEmpty(t) THEN "returned" ELSE "info"
    /\ returned' = <<>>
    /\ UNCHANGED <<info, shares_data, prices, others>>

\* Lines 41-44.
ReadInfo ==
    /\ fpc = "info"
    /\ \E fast_info \in FastInfos :
          info' = [market_cap |-> OrZero(fast_info.market_cap),
                   current_price |-> OrZero(fast_info.last_price),
                   current_shares |-> OrZero(fast_info.shares)]
    /\ fpc' = "balance"
    /\ UNCHANGED <<cf, shares_data, prices, returned, others>>

\* Lines 46-61.
ReadBalanceSheet ==
    /\ fpc = "balance"
    /\ \E bs \in BsTables : shares_data' = SharesData(bs)
    /\ fpc' = "history"
    /\ UNCHANGED <<cf, info, prices, returned, others>>

\* Lines 63-71.
ReadHistory ==
    /\ fpc = "history"
    /\ \E price_rows \in Histories : prices' = Prices(price_rows)
    /\ fpc' = "columns"
    /\ UNCHANGED <<cf, info, shares_data, returned, others>>

\* Lines 87-140.
ReturnQuarters ==
    /\ fpc = "columns"
    /\ returned' = <<[quarters |-> Quarters(cf, shares_data, prices,
                                             info.current_shares),
                      market_cap |-> info.market_cap,
                      current_price |-> info.current_price]>>
    /\ fpc' = "returned"
    /\ UNCHANGED <<cf, info, shares_data, prices, others>>

\* Lines 142-144: an exception of the provider outside the two inner try
\* blocks.
FetchRaise ==
    /\ fpc \in {"start", "info", "columns"}
    /\ returned' = <<>>
    /\ fpc' = "returned"
    /\ UNCHANGED <<cf, info, shares_data, prices, others>>

NextFetch ==
    \/ ReadCashflow
    \/ ReadInfo
    \/ ReadBalanceSheet
    \/ ReadHistory
    \/ ReturnQuarters
    \/ FetchRaise

SpecFetch == InitFetch /\ [][NextFetch]_vars

\* ------------------------------------------------- the summary on its own
\* The buyback amounts of the quarters that are summarised, and the quarter
\* lists: 1..MaxQuarters quarters, a stored list never being empty.
Amounts == {0 - 500, 0 - 300, 0, 100}
QuartersOf(amounts) == [i \in DOMAIN amounts |-> Quarter(i, amounts[i])]
QuarterLists == UNION {{QuartersOf(a) : a \in [1..n -> Amounts]} : n \in 1..MaxQuarters}

InitSummary ==
    /\ NoRun(<<>>)
    /\ \E l \in QuarterLists : rec_quarters = <<l>>
    /\ summary = <<>>
    /\ args = <<>> /\ probed = <<>> /\ nearby = <<>>
    /\ NoFetch

\* Lines 209 and 232-235 for one quarter list.
Summarise ==
    /\ rec_quarters # <<>> /\ summary = <<>>
    /\ summary' = <<[buyback_total |-> buyback_total(rec_quarters[1]),
                     has_buybacks |-> HasBuybacks(rec_quarters[1])]>>
    /\ UNCHANGED <<run, args, probed, nearby, fetch, rec_quarters>>

NextSummary == Summarise

SpecSummary == InitSummary /\ [][NextSummary]_vars

\* ------------------------------------------------------------ properties

\* The last completed invocation.
LastRun == hist[Len(hist)]

\* Process p takes the step that completes its invocation (lines 220-243).
Finishing(p) == pc[p] = "fetching" /\ pc'[p] = "done"

\* batch_index in [0, total_batches)
CursorInRange(d) == 0 <= d.batch_index /\ d.batch_index < d.total_batches

\* C1, as stated: in every collection state, the fresh state of load_data()
\* included, 0 <= batch_index < total_batches.
C1_EveryState ==
    /\ file # <<>> => CursorInRange(file[1])
    /\ \A p \in Procs : pc[p] = "loaded" => CursorInRange(db[p])

\* C1, amended: every persisted collection state has 0 <= batch_index <
\* total_batches; the fresh state that load_data() returns when no file exists
\* has batch_index = 0 = total_batches.
C1_PersistedCursorInRange ==
    /\ file # <<>> => CursorInRange(file[1])
    /\ file = <<>> => /\ load_data(file).batch_index = 0
                      /\ load_data(file).total_batches = 0

\* Two runs over universes of different sizes have completed.
C1_Witness ==
    /\ Len(hist) >= 2
    /\ Len(hist[1].sp500) # Len(hist[2].sp500)
    /\ file # <<>> /\ file[1].total_batches > 1

\* The symbols of a universe list.
SymbolSet(l) == {l[k].symbol : k \in 1..Len(l)}

\* The sequence q holds no element twice.
NoRepeat(q) == \A a, b \in DOMAIN q : q[a] = q[b] => a = b

\* The completed runs i..j all ran over the universe of run j.
SameUniverse(i, j) == \A k \in i..j : hist[k].sp500 = hist[j].sp500

\* C2: with T = ceil(N/B) the effective index C mod T of every run is in
\* [0, T), and the slices selected by T consecutive completed runs over an
\* unchanged universe are pairwise disjoint and together are the whole
\* universe: every symbol is selected in exactly one of the T runs.
C2_CycleCoversUniverseOnce ==
    /\ \A p \in Procs : pc[p] = "fetching" =>
          /\ 0 <= batch_index[p]
          /\ batch_index[p] < TotalBatches(Len(sp500[p]))
    /\ \A j \in 1..Len(hist) :
          LET T == TotalBatches(Len(hist[j].sp500))
              i == j - T + 1
          IN  /\ hist[j].batch_index \in 0..(T - 1)
              /\ (i >= 1 /\ SameUniverse(i, j)) =>
                    /\ \A a, b \in i..j :
                          a # b => Range(hist[a].batch) \cap Range(hist[b].batch) = {}
                    /\ \A a \in i..j : NoRepeat(hist[a].batch)
                    /\ UNION {Range(hist[a].batch) : a \in i..j}
                          = SymbolSet(hist[j].sp500)

\* Two consecutive runs over a universe of two batches have completed.
C2_Witness ==
    /\ Len(hist) >= 2
    /\ TotalBatches(Len(LastRun.sp500)) >= 2
    /\ SameUniverse(Len(hist) - 1, Len(hist))
    /\ hist[Len(hist) - 1].batch # LastRun.batch

\* C3: whatever the stored cursor, stale or not, the selected slice is
\* [e*B, min(e*B+B, N)) with e = cursor mod total_batches, lies inside the
\* current universe and holds between 1 and B symbols.
C3_StaleCursorSelectsOneBatch ==
    \A p \in Procs : pc[p] = "fetching" =>
        LET N == Len(sp500[p])
            e == loaded[p].batch_index % TotalBatches(N)
            first == e * BATCH_SIZE
            last == Min(first + BATCH_SIZE, N)
        IN  /\ N > 0
            /\ batch_index[p] = e
            /\ first < last /\ last <= N
            /\ Len(batch_symbols[p]) = last - first
            /\ Len(batch_symbols[p]) \in 1..BATCH_SIZE
            /\ \A k \in 1..Len(batch_symbols[p]) :
                  batch_symbols[p][k] = sp500[p][first + k].symbol

\* A run has selected its batch from a cursor that the shrunken universe
\* made stale.
C3_Witness ==
    \E p \in Procs :
        /\ pc[p] = "fetching"
        /\ loaded[p].batch_index >= TotalBatches(Len(sp500[p]))
        /\ loaded[p].total_batches > TotalBatches(Len(sp500[p]))

\* The symbols whose fetch returned the same in this run of p as in the last
\* completed run.
SameFetched(p) == {s \in (DOMAIN got[p]) \cap (DOMAIN lastGot) : got[p][s] = lastGot[s]}

\* Process p completes a run that follows a completed run over the same
\* universe, the fetches of both runs having returned the same for every
\* symbol both fetched.
SecondOfTwo(p) ==
    /\ Finishing(p)
    /\ hist # <<>>
    /\ LastRun.sp500 = sp500[p]
    /\ SameFetched(p) = (DOMAIN got[p]) \cap (DOMAIN lastGot)

\* Each of the two runs advanced the persisted cursor by exactly 1 modulo T.
BothAdvancedByOne(p) ==
    LET T == TotalBatches(Len(sp500[p]))
    IN  /\ file[1].batch_index = (LastRun.cursor + 1) % T
        /\ file'[1].batch_index = (file[1].batch_index + 1) % T

\* C4, as stated: after the second of two runs in a row with an unchanged
\* universe and identical upstream data every stored record is identical to
\* what it was after the first, and each run advanced batch_index by 1 mod T.
C4_RecordsIdentical ==
    [][\A p \in Procs : SecondOfTwo(p) =>
          /\ file'[1].data = file[1].data
          /\ BothAdvancedByOne(p)]_vars

\* C4, amended: after the second run every symbol that both runs fetched
\* with the same successful result has the record it had after the first run
\* in every field but last_fetched, which is the second run's timestamp;
\* every symbol the second run did not fetch successfully has exactly the
\* record (or the absence of one) it had after the first run; and each of the
\* two runs advanced batch_index by exactly 1 modulo T.
C4_IdenticalButLastFetched ==
    [][\A p \in Procs : SecondOfTwo(p) =>
          /\ \A s \in SameFetched(p) : FetchOk(got[p][s]) =>
                /\ s \in DOMAIN file[1].data
                /\ s \in DOMAIN file'[1].data
                /\ file'[1].data[s] =
                      [file[1].data[s] EXCEPT !.last_fetched = now[p]]
          /\ \A s \in Syms : ~(s \in DOMAIN got[p] /\ FetchOk(got[p][s])) =>
                /\ (s \in DOMAIN file'[1].data) = (s \in DOMAIN file[1].data)
                /\ s \in DOMAIN file[1].data => file'[1].data[s] = file[1].data[s]
          /\ BothAdvancedByOne(p)]_vars

\* A second run over the same universe has fetched, at a later second, the
\* data the first run fetched for a symbol, and is about to save.
C4_Witness ==
    \E p \in Procs :
        /\ pc[p] = "fetching" /\ idx[p] = Len(batch_symbols[p])
        /\ hist # <<>>
        /\ LastRun.sp500 = sp500[p]
        /\ SameFetched(p) = (DOMAIN got[p]) \cap (DOMAIN lastGot)
        /\ now[p] # LastRun.now
        /\ \E s \in SameFetched(p) :
              /\ FetchOk(got[p][s])
              /\ db[p].data[s] = [file[1].data[s] EXCEPT !.last_fetched = now[p]]
              /\ db[p].data[s] # file[1].data[s]

\* C5: a completed run increments full_cycles_completed by exactly 1 and
\* persists batch_index = 0 when its effective index e has e + 1 =
\* total_batches, and leaves full_cycles_completed unchanged otherwise; so
\* after n completed runs from the fresh state over an unchanged universe of
\* T batches full_cycles_completed is n div T (k after k*T runs).
C5_CycleCounter ==
    /\ [][\A p \in Procs : Finishing(p) =>
            LET T == TotalBatches(Len(sp500[p]))
            IN  IF batch_index[p] + 1 = T
                THEN /\ file'[1].full_cycles_completed =
                            loaded[p].full_cycles_completed + 1
                     /\ file'[1].batch_index = 0
                ELSE /\ file'[1].full_cycles_completed =
                            loaded[p].full_cycles_completed
                     /\ file'[1].batch_index = batch_index[p] + 1]_vars
    /\ [](hist # <<>> /\ SameUniverse(1, Len(hist)) =>
            LET T == TotalBatches(Len(LastRun.sp500))
            IN  /\ file[1].full_cycles_completed = Len(hist) \div T
                /\ file[1].batch_index = Len(hist) % T)

\* From the fresh state, the two runs of a two-batch universe have completed
\* one full cycle.
C5_Witness ==
    /\ Len(hist) = 2
    /\ SameUniverse(1, 2)
    /\ TotalBatches(Len(LastRun.sp500)) = 2
    /\ file[1].full_cycles_completed = 1
    /\ file[1].batch_index = 0

\* Process p takes one iteration of the loop (lines 194-218).
Fetching(p) == pc[p] = "fetching" /\ idx'[p] = idx[p] + 1

\* C6: a failed fetch (no result, or a result with an empty quarter list)
\* increments the failure count and changes nothing of the stored data, so
\* the record loaded for that symbol, if any, is the one saved at the end of
\* the run, and the records of the other symbols of the batch are what their
\* own fetches made them.
C6_FailureKeepsStoredRecord ==
    [][\A p \in Procs :
          /\ Fetching(p) =>
                LET s == batch_symbols[p][idx[p] + 1]
                IN  ~FetchOk(got'[p][s]) =>
                       /\ fail_count'[p] = fail_count[p] + 1
                       /\ success_count'[p] = success_count[p]
                       /\ db'[p].data = db[p].data
          /\ Finishing(p) =>
                \A s \in DOMAIN got[p] :
                   IF FetchOk(got[p][s])
                   THEN /\ s \in DOMAIN file'[1].data
                        /\ file'[1].data[s] =
                              SymbolRecord(InfoLookup(sp500[p], s), got[p][s][1],
                                           now[p])
                   ELSE /\ (s \in DOMAIN file'[1].data) = (s \in DOMAIN loaded[p].data)
                        /\ s \in DOMAIN loaded[p].data =>
                              file'[1].data[s] = loaded[p].data[s]]_vars

\* A run has saved: one symbol of its batch failed and kept the record of an
\* earlier run, another symbol of the same batch succeeded.
C6_Witness ==
    /\ Len(hist) >= 2
    /\ \E s, u \in DOMAIN lastGot :
          /\ ~FetchOk(lastGot[s])
          /\ s \in DOMAIN file[1].data
          /\ file[1].data[s].last_fetched # LastRun.now
          /\ FetchOk(lastGot[u])
          /\ file[1].data[u].last_fetched = LastRun.now

\* Process p takes the step of lines 173-192 after its load.
LoadingUniverse(p) == pc[p] = "loaded" /\ pc'[p] \in {"exit1", "fetching"}

\* C7: with the universe file missing or its list empty, main() ends with
\* exit status 1 before any batch work: it selects no batch, issues no fetch
\* and never calls save_data, so the state file is neither created nor
\* modified; with a non-empty universe it does not exit there.
C7_FatalExitWritesNothing ==
    /\ [][\A p \in Procs : LoadingUniverse(p) =>
            IF NotSp500(tickers)
            THEN /\ pc'[p] = "exit1"
                 /\ file' = file
                 /\ got'[p] = EmptyData /\ idx'[p] = 0
                 /\ batch_symbols'[p] = <<>>
                 /\ hist' = hist
            ELSE pc'[p] = "fetching"]_vars
    /\ [](\A p \in Procs :
            /\ pc[p] = "exit1" =>
                  /\ got[p] = EmptyData /\ idx[p] = 0
                  /\ success_count[p] = 0 /\ fail_count[p] = 0
                  /\ load_data(file) = loaded[p]
                  /\ loaded[p] = FreshState /\ hist = <<>> => file = <<>>
            /\ pc[p] = "fetching" => sp500[p] # <<>>)

\* A run has exited with status 1 on an empty universe list, a state file
\* of an earlier run being in place.
C7_Witness ==
    \E p \in Procs :
        /\ pc[p] = "exit1"
        /\ tickers = <<UniverseList(0)>>
        /\ file # <<>> /\ file[1] = loaded[p]

\* C8: the state file changes only at the save that ends a run. When a run
\* dies between its load and its save, whatever it fetched, the persisted
\* state is exactly what that run loaded, and the next run over the same
\* universe selects the same batch again.
C8_OnlySaveChangesFile ==
    /\ [][file' # file => \E p \in Procs :
            Finishing(p) /\ idx[p] = Len(batch_symbols[p])]_vars
    /\ [](crashed # <<>> =>
            /\ load_data(file) = crashed[1].loaded
            /\ (file = <<>>) = (hist = <<>>)
            /\ \A q \in Procs :
                  (/\ pc[q] = "fetching"
                   /\ crashed[1].selected
                   /\ sp500[q] = crashed[1].sp500) =>
                      /\ batch_index[q] = crashed[1].batch_index
                      /\ batch_symbols[q] = crashed[1].batch)

\* A run died mid-batch after a fetch and the next run has selected the same
\* batch.
C8_Witness ==
    /\ crashed # <<>>
    /\ crashed[1].selected /\ crashed[1].fetched >= 1
    /\ TotalBatches(Len(crashed[1].sp500)) >= 2
    /\ \E q \in Procs :
          /\ pc[q] = "fetching"
          /\ sp500[q] = crashed[1].sp500
          /\ batch_symbols[q] = crashed[1].batch

\* Runs i and j both loaded before either saved.
LoadedTogether(i, j) == i < j /\ hist[i].epoch = hist[j].epoch

\* C9: two invocations that both load before either saves select the same
\* batch from the same cursor, and after both have saved the file is the
\* state of the later saver: the cursor is one step, not two, past the
\* common effective index, and full_cycles_completed at most one above the
\* loaded count.
C9_OverlapLastWriterWins ==
    /\ \A p, q \in Procs :
          (/\ p # q /\ pc[p] = "fetching" /\ pc[q] = "fetching"
           /\ epoch[p] = epoch[q]) =>
              /\ loaded[p] = loaded[q]
              /\ batch_index[p] = batch_index[q]
              /\ batch_symbols[p] = batch_symbols[q]
    /\ \A i, j \in 1..Len(hist) : LoadedTogether(i, j) =>
          /\ hist[i].cursor = hist[j].cursor
          /\ hist[i].cycles = hist[j].cycles
          /\ hist[i].sp500 = hist[j].sp500
          /\ hist[i].batch_index = hist[j].batch_index
          /\ hist[i].batch = hist[j].batch
          /\ j = Len(hist) =>
                LET T == TotalBatches(Len(hist[j].sp500))
                IN  /\ file[1].batch_index = (hist[j].batch_index + 1) % T
                    /\ file[1].full_cycles_completed
                          \in {hist[j].cycles, hist[j].cycles + 1}
                    /\ file[1].last_updated = hist[j].now
                    /\ \A s \in DOMAIN lastGot : FetchOk(lastGot[s]) =>
                          /\ s \in DOMAIN file[1].data
                          /\ file[1].data[s].quarters = lastGot[s][1].quarters
                          /\ file[1].data[s].last_fetched = hist[j].now

\* Two invocations loaded the same state of a two-batch universe and both
\* have saved.
C9_Witness ==
    /\ Len(hist) = 2
    /\ LoadedTogether(1, 2)
    /\ TotalBatches(Len(hist[2].sp500)) = 2
    /\ file[1].batch_index = 1
    /\ hist[1].now # hist[2].now

\* C10: collection_started is the timestamp of the first completed run, set
\* by that run; no later completed run changes it.
C10_CollectionStartedSetOnce ==
    /\ hist = <<>> => load_data(file).collection_started = NoTime
    /\ hist # <<>> =>
          /\ file # <<>>
          /\ file[1].collection_started = hist[1].now
          /\ file[1].collection_started # NoTime

\* A second run has completed at a later second than the first.
C10_Witness ==
    /\ Len(hist) >= 2
    /\ LastRun.now # hist[1].now
    /\ file[1].last_updated = LastRun.now
    /\ file[1].collection_started = hist[1].now

\* The value the dictionary d holds at the key that is n calendar months
\* after k, if it holds one: <<>> or <<value>>.
ValueAt(d, k, n) ==
    LET hit == {a \in DOMAIN d : MonthsBetween(k, a) = n}
    IN  IF hit = {} THEN <<>> ELSE <<d[CHOOSE a \in hit : TRUE]>>

\* The first value among those at 0, +1, -1, +2, -2, +3, -3 months, from the
\* i-th of these on; 0 when there is none.
RECURSIVE FirstPresent(_, _, _)
FirstPresent(d, k, i) ==
    LET order == <<0, 1, -1, 2, -2, 3, -3>>
    IN  IF i > Len(order) THEN 0
        ELSE IF ValueAt(d, k, order[i]) # <<>> THEN ValueAt(d, k, order[i])[1]
        ELSE FirstPresent(d, k, i + 1)

\* C11: find_nearby(d, k) returns d[k] when k is a key of d; otherwise the
\* value at the first present key among the months +1, -1, +2, -2, +3, -3
\* from k, in that order; and 0 when none of the seven months is a key.
C11_FindNearbyFirstPresent ==
    nearby # <<>> =>
        LET d == args[1].data_dict
            k == args[1].date_key
        IN  /\ nearby[1] = FirstPresent(d, k, 1)
            /\ k \in DOMAIN d => nearby[1] = d[k]
            /\ (\A n \in (0 - 3)..3 : ValueAt(d, k, n) = <<>>) => nearby[1] = 0

\* A call has returned the value one month back although the month two
\* ahead is a key as well, with another value.
C11_Witness ==
    /\ nearby # <<>>
    /\ LET d == args[1].data_dict
           k == args[1].date_key
       IN  /\ ValueAt(d, k, 0 - 1) = nearby
           /\ ValueAt(d, k, 2) # <<>> /\ ValueAt(d, k, 2) # nearby
           /\ Len(probed) = 2

\* The string s is a zero-padded "YYYY-MM" with a month of 1..12.
WellFormedKey(s) ==
    /\ Len(s) = 7
    /\ s[5] = Dash
    /\ \A i \in {1, 2, 3, 4, 6, 7} : s[i] \in 0..9
    /\ KeyMonth(s) \in 1..12

\* C17: for every target month 1..12 and every offset of +1, -1, +2, -2, +3,
\* -3 the probed key is a zero-padded "YYYY-MM" whose month is in 1..12 and
\* which is the calendar month exactly that many months after or before the
\* target, the year carried: "2023-12" + 1 is "2024-01", "2023-01" - 1 is
\* "2022-12".
C17_MonthArithmeticCarriesYear ==
    nearby # <<>> =>
        /\ \A i \in DOMAIN Offsets :
              LET alt == Alt(args[1].date_key, Offsets[i])
              IN  /\ WellFormedKey(alt)
                  /\ MonthsBetween(args[1].date_key, alt) = Offsets[i]
                  /\ alt \in AllKeys
        /\ \A i \in DOMAIN probed :
              /\ WellFormedKey(probed[i])
              /\ MonthsBetween(args[1].date_key, probed[i]) = Offsets[i]
        /\ Alt(<<2, 0, 2, 3, "-", 1, 2>>, 1) = <<2, 0, 2, 4, "-", 0, 1>>
        /\ Alt(<<2, 0, 2, 3, "-", 0, 1>>, 0 - 1) = <<2, 0, 2, 2, "-", 1, 2>>

\* A call for January found nothing and has probed all six months, three
\* of them in the year before.
C17_Witness ==
    /\ nearby = <<0>>
    /\ args[1].date_key = <<2, 0, 2, 3, "-", 0, 1>>
    /\ Len(probed) = 6
    /\ probed[2] = <<2, 0, 2, 2, "-", 1, 2>>
    /\ probed[6] = <<2, 0, 2, 2, "-", 1, 0>>
    /\ probed[5] = <<2, 0, 2, 3, "-", 0, 4>>

\* The sum of f over the finite set S.
RECURSIVE SumOver(_, _)
SumOver(S, f) ==
    IF S = {} THEN 0
    ELSE LET x == CHOOSE y \in S : TRUE IN f[x] + SumOver(S \ {x}, f)

\* C12: the buyback total of a quarter list is the sum of the absolute
\* values of its negative buyback_amount entries, zero and positive entries
\* adding nothing; the list shows buyback activity exactly when an entry is
\* negative; [-500, -300, 100, 0] gives activity and a total of 800.
C12_TotalOfNegativeAmounts ==
    summary # <<>> =>
        LET q == rec_quarters[1]
            negative == {i \in DOMAIN q : q[i].buyback_amount < 0}
        IN  /\ summary[1].buyback_total =
                  SumOver(negative, [i \in negative |-> 0 - q[i].buyback_amount])
            /\ summary[1].has_buybacks = (negative # {})
            /\ summary[1].buyback_total >= 0
            /\ (summary[1].buyback_total > 0) = summary[1].has_buybacks
            /\ q = QuartersOf(<<0 - 500, 0 - 300, 100, 0>>) =>
                  summary[1] = [buyback_total |-> 800, has_buybacks |-> TRUE]

\* The list [-500, -300, 100, 0] has been summarised: activity, total 800.
C12_Witness ==
    /\ summary = <<[buyback_total |-> 800, has_buybacks |-> TRUE]>>
    /\ rec_quarters = <<QuartersOf(<<0 - 500, 0 - 300, 100, 0>>)>>

\* The labelled row is in the table and its cell is neither None nor NaN.
Reported(index, cells, label) ==
    label \in index /\ cells[label] # PyNone /\ cells[label] # NaN

\* C13: the buyback_amount of a quarter is the cell of the first of
\* 'Repurchase Of Capital Stock', 'Common Stock Repurchased' and
\* 'RepurchaseOfCapitalStock', in that order, that is a row of the table
\* and neither null nor NaN, as reported; 0 when none of the three is; a
\* column with 'Common Stock Repurchased' = -1200 and no 'Repurchase Of
\* Capital Stock' row gives -1200.
C13_BuybackFirstReportedField ==
    (fpc = "returned" /\ returned # <<>>) =>
        LET index == cf[1].index
            cells == cf[1].columns[1].cells
            q == returned[1].quarters[1]
            first == "Repurchase Of Capital Stock"
            second == "Common Stock Repurchased"
            third == "RepurchaseOfCapitalStock"
        IN  /\ Len(returned[1].quarters) = Len(cf[1].columns)
            /\ q.buyback_amount =
                  IF Reported(index, cells, first) THEN cells[first].v
                  ELSE IF Reported(index, cells, second) THEN cells[second].v
                  ELSE IF Reported(index, cells, third) THEN cells[third].v
                  ELSE 0
            /\ (first \notin index /\ second \in index
                  /\ cells[second] = Float(0 - 1200)) => q.buyback_amount = 0 - 1200

\* The call has returned a quarter with the -1200 of 'Common Stock
\* Repurchased', the table having a 'RepurchaseOfCapitalStock' row with
\* another number and no 'Repurchase Of Capital Stock' row.
C13_Witness ==
    /\ fpc = "returned" /\ returned # <<>>
    /\ LET index == cf[1].index
           cells == cf[1].columns[1].cells
       IN  /\ "Repurchase Of Capital Stock" \notin index
           /\ "Common Stock Repurchased" \in index
           /\ "RepurchaseOfCapitalStock" \in index
           /\ cells["Common Stock Repurchased"] = Float(0 - 1200)
           /\ cells["RepurchaseOfCapitalStock"] = Float(5)
    /\ returned[1].quarters[1].buyback_amount = 0 - 1200

\* The positive number of the labelled row: <<>> when the row is missing or
\* its cell is null, NaN or not positive.
Positive(index, cells, label) ==
    IF Reported(index, cells, label) /\ cells[label].v > 0
    THEN <<cells[label].v>> ELSE <<>>

\* C18: shares_outstanding is, by strict priority, the balance-sheet value
\* of the quarter's month or of the nearest month find_nearby reaches, when
\* that is positive; else the first positive, non-null, non-NaN cell of
\* 'Diluted Average Shares' and 'Basic Average Shares'; else the fast-info
\* share count; else 0. The field is always there and always a number.
C18_SharesByPriority ==
    /\ \A k \in DOMAIN shares_data : shares_data[k] > 0
    /\ (fpc = "returned" /\ returned # <<>>) =>
          LET index == cf[1].index
              col == cf[1].columns[1]
              q == returned[1].quarters[1]
              balance == FirstPresent(shares_data, SubSeq(col.date, 1, 7), 1)
              diluted == Positive(index, col.cells, "Diluted Average Shares")
              basic == Positive(index, col.cells, "Basic Average Shares")
          IN  /\ "shares_outstanding" \in DOMAIN q
              /\ q.shares_outstanding \in Nat
              /\ q.shares_diluted = q.shares_outstanding
              /\ q.shares_outstanding =
                    IF balance > 0 THEN balance
                    ELSE IF diluted # <<>> THEN diluted[1]
                    ELSE IF basic # <<>> THEN basic[1]
                    ELSE info.current_shares
              /\ info.current_shares \in Nat

\* The call has returned a quarter with the balance-sheet value of the
\* month after, the table having a positive 'Diluted Average Shares' cell
\* and fast_info a share count as well.
C18_Witness ==
    /\ fpc = "returned" /\ returned # <<>>
    /\ shares_data = Put(EmptyData, MonthKey(2024, 1), 7)
    /\ "Diluted Average Shares" \in cf[1].index
    /\ cf[1].columns[1].cells["Diluted Average Shares"] = Float(5)
    /\ info.current_shares = 9
    /\ returned[1].quarters[1].shares_outstanding = 7

\* C14: a successful fetch replaces the record of the symbol wholesale: the
\* stored quarter list is exactly the list this fetch returned, in upstream
\* order, in memory from the fetch on and in the file after the save; no
\* quarter of an earlier fetch survives unless this fetch returned it.
C14_RecordReplacedWholesale ==
    /\ \A p \in Procs : pc[p] = "fetching" =>
          \A s \in DOMAIN got[p] : FetchOk(got[p][s]) =>
             /\ s \in DOMAIN db[p].data
             /\ db[p].data[s].quarters = got[p][s][1].quarters
             /\ db[p].data[s].market_cap = got[p][s][1].market_cap
             /\ db[p].data[s].last_fetched = now[p]
    /\ hist # <<>> =>
          \A s \in DOMAIN lastGot : FetchOk(lastGot[s]) =>
             /\ s \in DOMAIN file[1].data
             /\ file[1].data[s].quarters = lastGot[s][1].quarters

\* A run loaded a record of two quarters for a symbol and has fetched one
\* quarter for it: the record holds that quarter only.
C14_Witness ==
    \E p \in Procs : \E s \in DOMAIN got[p] :
        /\ pc[p] = "fetching"
        /\ s \in DOMAIN loaded[p].data
        /\ loaded[p].data[s].quarters = ResultB.quarters
        /\ got[p][s] = <<ResultA>>
        /\ db[p].data[s].quarters = <<Quarter(2, 0 - 5)>>

\* C15: a run that has passed the checks of lines 173-176 fetches every
\* symbol of its batch and reaches the save, whatever fetches fail, all of
\* them included: a failed fetch leaves the run in its loop, one symbol
\* further, and the save that ends the run comes after the last symbol of
\* the batch and advances the cursor.
C15_RunReachesSave ==
    /\ \A p \in Procs : (pc[p] = "fetching") ~> (pc[p] = "done")
    /\ [][\A p \in Procs :
            /\ (pc[p] = "fetching" /\ idx[p] < Len(batch_symbols[p])) =>
                  \/ pc'[p] = "fetching" /\ idx'[p] = idx[p] + 1
                  \/ UNCHANGED <<pc, idx>>
            /\ Finishing(p) =>
                  /\ idx[p] = Len(batch_symbols[p])
                  /\ DOMAIN got[p] = Range(batch_symbols[p])
                  /\ file' = <<FinalState(db[p], now[p], batch_index[p],
                                          TotalBatches(Len(sp500[p])))>>
                  /\ file'[1].batch_index =
                        (batch_index[p] + 1) % TotalBatches(Len(sp500[p]))
                  /\ file'[1].last_updated = now[p]]_vars

\* A run whose fetches all failed, two of them, has saved, and the cursor
\* has advanced.
C15_Witness ==
    /\ hist # <<>>
    /\ Len(LastRun.batch) = 2
    /\ DOMAIN lastGot = Range(LastRun.batch)
    /\ \A s \in DOMAIN lastGot : ~FetchOk(lastGot[s])
    /\ \E s \in DOMAIN lastGot : lastGot[s] = <<>>
    /\ file[1].batch_index = 1
    /\ file[1].last_updated = LastRun.now

\* The completed runs i..j all ran over the same universe.
Unchanged(i, j) == \A k \in i..j : hist[k].sp500 = hist[i].sp500

\* C16: within one run every symbol of the selected batch is fetched exactly
\* once, succeed or fail, and no symbol outside the batch is fetched; and
\* over an unchanged universe of T batches a symbol of the batch of one
\* completed run, failed or not, is in the batch of a later completed run
\* exactly when that run is a multiple of T runs later, so it is next
\* fetched T completed runs later.
C16_FetchedOncePerCycle ==
    /\ \A p \in Procs : pc[p] = "fetching" =>
          /\ idx[p] = success_count[p] + fail_count[p]
          /\ DOMAIN got[p] = {batch_symbols[p][k] : k \in 1..idx[p]}
          /\ Cardinality(DOMAIN got[p]) = idx[p]
          /\ idx[p] <= Len(batch_symbols[p])
          /\ NoRepeat(batch_symbols[p])
    /\ hist # <<>> =>
          /\ DOMAIN lastGot = Range(LastRun.batch)
          /\ Cardinality(DOMAIN lastGot) = Len(LastRun.batch)
    /\ \A i, j \in 1..Len(hist) : (i < j /\ Unchanged(i, j)) =>
          \A s \in Range(hist[i].batch) :
             (s \in Range(hist[j].batch))
                = ((j - i) % TotalBatches(Len(hist[i].sp500)) = 0)
    /\ \A p \in Procs : \A i \in 1..Len(hist) :
          (/\ pc[p] = "fetching"
           /\ Unchanged(i, Len(hist)) /\ hist[i].sp500 = sp500[p]) =>
              \A s \in Range(hist[i].batch) :
                 (s \in Range(batch_symbols[p]))
                    = ((Len(hist) + 1 - i) % TotalBatches(Len(sp500[p])) = 0)

\* Over a universe of two batches a symbol failed in the first run, was not
\* in the batch of the second, and the third run has fetched it again.
C16_Witness ==
    \E p \in Procs : \E s \in DOMAIN got[p] :
        /\ pc[p] = "fetching"
        /\ Len(hist) = 2 /\ Unchanged(1, 2) /\ hist[1].sp500 = sp500[p]
        /\ TotalBatches(Len(sp500[p])) = 2
        /\ s \in Range(hist[1].batch)
        /\ s \notin Range(hist[2].batch)
        /\ s \notin DOMAIN loaded[p].data

\* The symbols of the batch of p whose fetch returned a result with a
\* quarter, among those fetched so far.
Succeeded(p) ==
    {s \in DOMAIN got[p] : got[p][s] # <<>> /\ got[p][s][1].quarters # <<>>}

\* C19: when the loop of a run has ended, success_count + fail_count is the
\* number of symbols of the selected batch, and all through the loop every
\* symbol fetched so far is counted exactly once: as a success, its record
\* replaced by the one of this fetch, or as a failure, its record as it was
\* loaded.
C19_CountsPartitionBatch ==
    \A p \in Procs : pc[p] = "fetching" =>
        /\ success_count[p] = Cardinality(Succeeded(p))
        /\ fail_count[p] = Cardinality(DOMAIN got[p] \ Succeeded(p))
        /\ success_count[p] + fail_count[p] = idx[p]
        /\ DOMAIN got[p] = {batch_symbols[p][k] : k \in 1..idx[p]}
        /\ idx[p] = Len(batch_symbols[p]) =>
              /\ success_count[p] + fail_count[p] = Len(batch_symbols[p])
              /\ DOMAIN got[p] = Range(batch_symbols[p])
        /\ \A s \in Succeeded(p) :
              /\ s \in DOMAIN db[p].data
              /\ db[p].data[s] =
                    SymbolRecord(InfoLookup(sp500[p], s), got[p][s][1], now[p])
        /\ \A s \in DOMAIN got[p] \ Succeeded(p) :
              /\ (s \in DOMAIN db[p].data) = (s \in DOMAIN loaded[p].data)
              /\ s \in DOMAIN db[p].data => db[p].data[s] = loaded[p].data[s]

\* The loop of a run over a batch of two has ended with one success and one
\* failure, the failed symbol keeping the record it had.
C19_Witness ==
    \E p \in Procs :
        /\ pc[p] = "fetching"
        /\ idx[p] = 2 /\ Len(batch_symbols[p]) = 2
        /\ success_count[p] = 1 /\ fail_count[p] = 1
        /\ \E s \in DOMAIN got[p] \ Succeeded(p) :
              /\ s \in DOMAIN loaded[p].data
              /\ db[p].data[s] = loaded[p].data[s]

\* C20: no run removes a key of the stored symbol -> record mapping, in
\* memory or in the file: the symbols of the file only grow from save to
\* save, the record of a symbol that is no longer in the universe is saved
\* again as it was, and every stored record has a quarter list that is not
\* empty.
C20_StoredSymbolsOnlyGrow ==
    /\ [][/\ file # <<>> =>
               /\ file' # <<>>
               /\ DOMAIN file[1].data \subseteq DOMAIN file'[1].data
          /\ \A p \in Procs :
               /\ (Active(p) /\ pc[p] = pc'[p]) =>
                     DOMAIN db[p].data \subseteq DOMAIN db'[p].data
               /\ Finishing(p) =>
                     /\ DOMAIN loaded[p].data \subseteq DOMAIN file'[1].data
                     /\ \A s \in DOMAIN loaded[p].data :
                           s \notin SymbolSet(sp500[p]) =>
                              file'[1].data[s] = loaded[p].data[s]]_vars
    /\ [](/\ file # <<>> =>
               \A s \in DOMAIN file[1].data : file[1].data[s].quarters # <<>>
          /\ \A p \in Procs : \A s \in DOMAIN db[p].data :
               db[p].data[s].quarters # <<>>)

\* The file holds the record of a symbol that the universe of the last
\* completed run did not list any more.
C20_Witness ==
    /\ Len(hist) >= 2
    /\ \E s \in DOMAIN file[1].data :
          /\ s \notin SymbolSet(LastRun.sp500)
          /\ s \in SymbolSet(hist[1].sp500)
          /\ file[1].data[s].last_fetched = hist[1].now
          /\ file[1].last_updated # hist[1].now

====
